---------------------------- MODULE Spec2Model ----------------------------
(***************************************************************************)
(* Model of yival/cli/utils.py: the plain-data converter recursive_asdict  *)
(* and the template builder generate_experiment_config_yaml.               *)
(*                                                                         *)
(* Python values are tagged nodes [tag, v, keys, kids]:                    *)
(*   prim  a str/number/bool leaf, v its text                              *)
(*   enum  an Enum member, v the text of its .value                        *)
(*   obj   an object with an asdict attribute, kids = <<asdict() result>>  *)
(*   list  a list, kids its items                                          *)
(*   dict  a dict, keys its keys in insertion order, kids the values       *)
(***************************************************************************)
EXTENDS Integers, Sequences, FiniteSets, TLC

VARIABLES
    heap,     \* default_config object id -> its __dict__ (a dict node)
    pc,       \* "idle": no call in progress, "returned": a call has returned
    args,     \* the arguments of the last call
    result,   \* the outcome of the last call: the document or the raise
    obj,      \* converter harness: the input handed to recursive_asdict
    out,      \* converter harness: recursive_asdict(obj)
    out2,     \* converter harness: recursive_asdict(out)
    cpc       \* converter harness: "in", "once", "twice"

vars == <<heap, pc, args, result, obj, out, out2, cpc>>

---------------------------------------------------------------------------
\* Bounds of the model.

\* names and variation objects passed to one call, over the three lists
MaxItems == 3
\* nesting depth of the values handed to the converter harness
MaxDepth == 2
\* length of the lists built for the converter harness
MaxWidth == 2

---------------------------------------------------------------------------
\* Python values.

Prim(s) == [tag |-> "prim", v |-> s, keys |-> <<>>, kids |-> <<>>]

EnumMember(s) == [tag |-> "enum", v |-> s, keys |-> <<>>, kids |-> <<>>]

WithAsdict(d) == [tag |-> "obj", v |-> "", keys |-> <<>>, kids |-> <<d>>]

List(items) == [tag |-> "list", v |-> "", keys |-> <<>>, kids |-> items]

Dict(ks, vs) == [tag |-> "dict", v |-> "", keys |-> ks, kids |-> vs]

\* recursive_asdict with the Enum branch missing
RECURSIVE recursive_asdict_no_enum(_)
RECURSIVE asdict_items_no_enum(_)
asdict_items_no_enum(items) ==
    IF items = <<>> THEN <<>>
    ELSE <<recursive_asdict_no_enum(Head(items))>> \o asdict_items_no_enum(Tail(items))

recursive_asdict_no_enum(o) ==
    IF o.tag = "list" THEN List(asdict_items_no_enum(o.kids))
    ELSE IF o.tag = "dict" THEN Dict(o.keys, asdict_items_no_enum(o.kids))
    ELSE IF o.tag = "obj" THEN o.kids[1]
    ELSE o

RECURSIVE recursive_asdict(_)
\* the comprehensions of lines 14 and 16: every item converted, order kept
RECURSIVE asdict_items(_)
asdict_items(items) ==
    IF items = <<>> THEN <<>>
    ELSE <<recursive_asdict(Head(items))>> \o asdict_items(Tail(items))

recursive_asdict(o) ==
    IF o.tag = "list" THEN List(asdict_items(o.kids))
    ELSE IF o.tag = "dict" THEN Dict(o.keys, asdict_items(o.kids))
    ELSE IF o.tag = "enum" THEN Prim(o.v)
    ELSE IF o.tag = "obj" THEN o.kids[1]
    ELSE o

\* only primitives, lists and dicts, at every depth
RECURSIVE IsPlain(_)
IsPlain(o) ==
    /\ o.tag \in {"prim", "list", "dict"}
    /\ \A i \in 1..Len(o.kids) : IsPlain(o.kids[i])


---------------------------------------------------------------------------
\* Python dict and truthiness helpers.

Range(s) == {s[i] : i \in 1..Len(s)}

HasKey(d, k) == k \in Range(d.keys)

\* d[k]
Get(d, k) == d.kids[CHOOSE i \in 1..Len(d.keys) : d.keys[i] = k]

\* d[k] = x: an existing key keeps its place, a new key goes last
DictSet(d, k, x) ==
    IF HasKey(d, k)
    THEN Dict(d.keys, [i \in 1..Len(d.keys) |-> IF d.keys[i] = k THEN x ELSE d.kids[i]])
    ELSE Dict(Append(d.keys, k), Append(d.kids, x))

\* an optional argument: given = FALSE is None
NoneStr == [given |-> FALSE, v |-> ""]

Str(s) == [given |-> TRUE, v |-> s]

NoneList == [given |-> FALSE, items |-> <<>>]

Some(items) == [given |-> TRUE, items |-> items]

\* `if reader_name:` is false for None and for ""
StrTruthy(x) == x.given /\ x.v # ""

\* `if evaluator_names:` is false for None and for []
ListTruthy(x) == x.given /\ x.items # <<>>

---------------------------------------------------------------------------
\* The component registries, as the component modules fill them at import:
\* every kind of descriptor the builder can meet is registered once.  A
\* class is [found, default_config]; default_config is the id of the
\* class's default_config object, "" when the class has none.  The default
\* configurations of the three kinds are instances of different config
\* classes, so no object is shared between two registries; fuzzy_match is
\* a subclass of string_match and inherits its default_config object.

NoClass == [found |-> FALSE, default_config |-> ""]

Class(id) == [found |-> TRUE, default_config |-> id]

ReaderNames == {"csv_reader", "bare_reader", "empty_reader"}

EvaluatorNames == {"string_match", "fuzzy_match", "bare_evaluator"}

WrapperNames == {"string_wrapper", "bare_wrapper"}

\* a name no component registers
Ghost == "ghost"

get_reader(name) ==
    IF name = "csv_reader" THEN Class("R1")
    ELSE IF name = "empty_reader" THEN Class("R0")
    ELSE IF name = "bare_reader" THEN Class("")
    ELSE NoClass

get_evaluator(name) ==
    IF name \in {"string_match", "fuzzy_match"} THEN Class("E1")
    ELSE IF name = "bare_evaluator" THEN Class("")
    ELSE NoClass

get_wrapper(name) ==
    IF name = "string_wrapper" THEN Class("W1")
    ELSE IF name = "bare_wrapper" THEN Class("")
    ELSE NoClass

\* the __dict__ of every default_config object, before the first call
InitialHeap ==
    [id \in {"R0", "R1", "E1", "W1"} |->
        IF id = "R1" THEN
            Dict(<<"path", "mode">>, <<Prim("data.csv"), EnumMember("r")>>)
        ELSE IF id = "E1" THEN
            Dict(<<"threshold", "metric">>,
                 <<Prim("0.5"), WithAsdict(Dict(<<"mode">>, <<Prim("exact")>>))>>)
        ELSE IF id = "W1" THEN
            Dict(<<"options">>, <<List(<<Prim("x"), EnumMember("y")>>)>>)
        ELSE Dict(<<>>, <<>>)]

\* the WrapperConfig objects a caller can pass; the last one's asdict()
\* result still holds an Enum member
WrapperConfigs ==
    { WithAsdict(Dict(<<"name", "variations">>, <<Prim("w1"), List(<<Prim("a")>>)>>)),
      WithAsdict(Dict(<<"name", "variations">>, <<Prim("w2"), List(<<>>)>>)),
      WithAsdict(Dict(<<"name", "variations">>, <<Prim("w3"), List(<<EnumMember("s")>>)>>)) }

---------------------------------------------------------------------------
\* yaml.safe_dump(data, default_flow_style=False, allow_unicode=True).

\* every mapping key of the model, in the order safe_dump sorts them
KeyOrder ==
    << "config", "custom_function", "dataset", "description", "evaluators",
       "metric", "mode", "name", "options", "path", "reader", "source_type",
       "threshold", "variations", "wrapper_configs" >>

RECURSIVE Represent(_)
RECURSIVE RepresentItems(_)
RepresentItems(items) ==
    IF items = <<>> THEN <<>>
    ELSE <<Represent(Head(items))>> \o RepresentItems(Tail(items))

\* the node the dumped text denotes: mappings with their keys sorted
Represent(o) ==
    IF o.tag = "dict" THEN
        LET ks == SelectSeq(KeyOrder, LAMBDA k : HasKey(o, k))
        IN  Dict(ks, RepresentItems([i \in 1..Len(ks) |-> Get(o, ks[i])]))
    ELSE IF o.tag = "list" THEN List(RepresentItems(o.kids))
    ELSE o

\* SafeRepresenter raises RepresenterError on an Enum member or an object
safe_dump_raises(data) == ~IsPlain(data)

safe_dump(data) == Represent(data)


---------------------------------------------------------------------------
\* generate_experiment_config_yaml.  The document is the sequence of the
\* blocks of text the function concatenates, a block being [kind, data]:
\* data is the dumped node for the two yaml blocks and Blank for the
\* fixed comment blocks.

Blank == Prim("")

Block(kind, data) == [kind |-> kind, data |-> data]

\* getattr(component_class, "default_config", None), then `if default:`
\* (an object is truthy) and default.__dict__: the dict is the object's
\* own, named here by the object's id; "" is None
get_default_config(component_class) == component_class.default_config

\* `if default_config:` on what get_default_config returned
ConfigTruthy(h, dc) == dc # "" /\ h[dc].keys # <<>>

\* DatasetSection with the config assignment of line 52 lost
DatasetSection_drops_config(a, h0, h1) ==
    LET base == Dict(<<"source_type">>, <<Prim(a.source_type)>>)
    IN  IF ~StrTruthy(a.reader_name) THEN base
        ELSE DictSet(base, "reader", Prim(a.reader_name.v))

\* lines 43-52; the config entry is the registry's dict itself, so it is
\* read (h1) when the tree is converted, after it was tested (h0)
DatasetSection(a, h0, h1) ==
    LET base == Dict(<<"source_type">>, <<Prim(a.source_type)>>)
        named == DictSet(base, "reader", Prim(a.reader_name.v))
        reader_cls == get_reader(a.reader_name.v)
        default_config == get_default_config(reader_cls)
    IN  IF ~StrTruthy(a.reader_name) THEN base
        ELSE IF reader_cls.found /\ ConfigTruthy(h0, default_config)
        THEN DictSet(named, "config", h1[default_config])
        ELSE named

\* lines 60-66: the loop over evaluator_names, from the heap h and the
\* section built so far; the section holds the dicts by their ids
RECURSIVE EvaluatorsLoop(_, _, _)
EvaluatorsLoop(names, h, section) ==
    IF names = <<>> THEN [heap |-> h, section |-> section]
    ELSE
        LET name == Head(names)
            evaluator_cls == get_evaluator(name)
            default_config == get_default_config(evaluator_cls)
        IN  IF evaluator_cls.found /\ ConfigTruthy(h, default_config)
            THEN EvaluatorsLoop(
                    Tail(names),
                    [h EXCEPT ![default_config] = DictSet(@, "name", Prim(name))],
                    Append(section, default_config))
            ELSE EvaluatorsLoop(Tail(names), h, section)

\* lines 58-66
EvaluatorsSection(a, h) ==
    IF ListTruthy(a.evaluator_names)
    THEN EvaluatorsLoop(a.evaluator_names.items, h, <<>>)
    ELSE [heap |-> h, section |-> <<>>]

\* WrappersList without the `if wrapper_cls:` test of line 72
RECURSIVE WrappersList_keeps_misses(_, _)
WrappersList_keeps_misses(names, h) ==
    IF names = <<>> THEN <<>>
    ELSE
        LET name == Head(names)
            default_config == get_default_config(get_wrapper(name))
            entry == Dict(<<"name", "config">>,
                          << Prim(name),
                             IF ConfigTruthy(h, default_config)
                             THEN h[default_config] ELSE Dict(<<>>, <<>>) >>)
        IN  <<entry>> \o WrappersList_keeps_misses(Tail(names), h)

\* lines 70-77: the loop over wrapper_names
RECURSIVE WrappersList(_, _)
WrappersList(names, h) ==
    IF names = <<>> THEN <<>>
    ELSE
        LET name == Head(names)
            wrapper_cls == get_wrapper(name)
            default_config == get_default_config(wrapper_cls)
            entry == Dict(<<"name", "config">>,
                          << Prim(name),
                             IF ConfigTruthy(h, default_config)
                             THEN h[default_config] ELSE Dict(<<>>, <<>>) >>)
        IN  IF wrapper_cls.found
            THEN <<entry>> \o WrappersList(Tail(names), h)
            ELSE WrappersList(Tail(names), h)

\* ids replaced by the dicts they name
RECURSIVE Deref(_, _)
Deref(ids, h) ==
    IF ids = <<>> THEN <<>> ELSE <<h[Head(ids)]>> \o Deref(Tail(ids), h)

\* lines 53-83: the tree handed to recursive_asdict
ExperimentConfig(a, h0, h1, section) ==
    LET c0 == Dict(<<"description", "dataset">>,
                   <<Prim("Generated experiment config"), DatasetSection(a, h0, h1)>>)
        c1 == IF ListTruthy(a.wrapper_names)
              THEN DictSet(c0, "wrapper_configs", List(WrappersList(a.wrapper_names.items, h1)))
              ELSE c0
        c2 == IF ListTruthy(a.evaluator_names)
              THEN DictSet(c1, "evaluators", List(Deref(section, h1)))
              ELSE c1
    IN  DictSet(c2, "custom_function", Prim(a.custom_function))

\* lines 104-106: wrapper_config.asdict() of every object, in order
RECURSIVE VariationsList(_)
VariationsList(wrapper_configs) ==
    IF wrapper_configs = <<>> THEN <<>>
    ELSE <<Head(wrapper_configs).kids[1]>> \o VariationsList(Tail(wrapper_configs))

\* HintBlocks testing `is None` where the code tests falsiness
HintBlocks_none_only(a) ==
    (IF ~a.evaluator_names.given
     THEN <<Block("evaluators_hint", Blank)>> ELSE <<>>)
    \o
    (IF ~a.wrapper_names.given
     THEN <<Block("wrapper_configs_hint", Blank)>> ELSE <<>>)

\* lines 90-93: the disabled example lines
HintBlocks(a) ==
    (IF ~ListTruthy(a.evaluator_names)
     THEN <<Block("evaluators_hint", Blank)>> ELSE <<>>)
    \o
    (IF ~ListTruthy(a.wrapper_names)
     THEN <<Block("wrapper_configs_hint", Blank)>> ELSE <<>>)

\* VariationsBlocks testing `is not None` where the code tests truthiness
VariationsBlocks_is_not_none(a) ==
    <<Block("variations_comment", Blank)>>
    \o
    (IF a.wrapper_configs.given
     THEN <<Block("variations_yaml",
                  safe_dump(Dict(<<"variations">>,
                                 <<List(VariationsList(a.wrapper_configs.items))>>)))>>
     ELSE <<Block("variations_example", Blank)>>)

\* lines 95-119: the comment block, then the variations or the example
VariationsBlocks(a) ==
    <<Block("variations_comment", Blank)>>
    \o
    (IF ListTruthy(a.wrapper_configs)
     THEN <<Block("variations_yaml",
                  safe_dump(Dict(<<"variations">>,
                                 <<List(VariationsList(a.wrapper_configs.items))>>)))>>
     ELSE <<Block("variations_example", Blank)>>)

\* the whole call from heap h: the heap it leaves and what it yields
generate_experiment_config_yaml(a, h) ==
    LET ev == EvaluatorsSection(a, h)
        experiment_config == recursive_asdict(ExperimentConfig(a, h, ev.heap, ev.section))
        raises ==
            \/ safe_dump_raises(experiment_config)
            \/ /\ ListTruthy(a.wrapper_configs)
               /\ safe_dump_raises(List(VariationsList(a.wrapper_configs.items)))
    IN  [ heap |-> ev.heap,
          result |->
            IF raises THEN [outcome |-> "raised", doc |-> <<>>]
            ELSE [ outcome |-> "returned",
                   doc |-> <<Block("header", Blank),
                             Block("yaml", safe_dump(experiment_config))>>
                           \o HintBlocks(a) \o VariationsBlocks(a) ] ]


---------------------------------------------------------------------------
\* The state machine: a caller calls the builder, reads what it returned,
\* and calls again; the registries' default_config objects live across calls.

\* the sequences over S of length at most n
Seqs(S, n) == UNION {[1..k -> S] : k \in 0..n}

\* an optional list argument of at most n items: None, [] or a list
OptLists(S, n) == {NoneList} \cup {Some(items) : items \in Seqs(S, n)}

ReaderArgs == {NoneStr, Str("")} \cup {Str(n) : n \in ReaderNames \cup {Ghost}}

\* the label a caller passes: not the default, to tell it from one
SourceTypes == {"user_input"}

NoArgs ==
    [ custom_function |-> "", source_type |-> "", evaluator_names |-> NoneList,
      reader_name |-> NoneStr, wrapper_names |-> NoneList, wrapper_configs |-> NoneList ]

NoResult == [outcome |-> "none", doc |-> <<>>]

Init ==
    /\ heap = InitialHeap
    /\ pc = "idle"
    /\ args = NoArgs
    /\ result = NoResult
    /\ obj = Blank
    /\ out = Blank
    /\ out2 = Blank
    /\ cpc = "off"

\* one call of generate_experiment_config_yaml, start to return or raise
Call ==
    /\ pc = "idle"
    /\ \E e \in OptLists(EvaluatorNames \cup {Ghost}, MaxItems) :
       \E w \in OptLists(WrapperNames \cup {Ghost}, MaxItems - Len(e.items)) :
       \E c \in OptLists(WrapperConfigs, MaxItems - Len(e.items) - Len(w.items)) :
       \E r \in ReaderArgs :
       \E st \in SourceTypes :
          LET a == [ custom_function |-> "def f(): pass", source_type |-> st,
                     evaluator_names |-> e, reader_name |-> r,
                     wrapper_names |-> w, wrapper_configs |-> c ]
              done == generate_experiment_config_yaml(a, heap)
          IN  /\ args' = a
              /\ heap' = done.heap
              /\ result' = done.result
    /\ pc' = "returned"
    /\ UNCHANGED <<obj, out, out2, cpc>>

\* the caller is done with the document
Return ==
    /\ pc = "returned"
    /\ pc' = "idle"
    /\ args' = NoArgs
    /\ result' = NoResult
    /\ UNCHANGED <<heap, obj, out, out2, cpc>>

Next == Call \/ Return

Spec == Init /\ [][Next]_vars

---------------------------------------------------------------------------
\* The converter on its own: recursive_asdict applied to a value, and then
\* to its own output.

Atoms == {Prim("p"), EnumMember("e")}

\* the values nested at most d deep; asdict() results are dicts
RECURSIVE Values(_)
Values(d) ==
    IF d = 0 THEN Atoms
    ELSE LET V == Values(d - 1)
         IN  V \cup {List(items) : items \in Seqs(V, MaxWidth)}
               \cup {Dict(<<"mode">>, <<x>>) : x \in V}
               \cup {WithAsdict(x) : x \in {y \in V : y.tag = "dict"}}

InitConv ==
    /\ heap = InitialHeap
    /\ pc = "idle"
    /\ args = NoArgs
    /\ result = NoResult
    /\ obj \in Values(MaxDepth)
    /\ out = Blank
    /\ out2 = Blank
    /\ cpc = "in"

Convert ==
    /\ cpc = "in"
    /\ out' = recursive_asdict(obj)
    /\ cpc' = "once"
    /\ UNCHANGED <<heap, pc, args, result, obj, out2>>

Reconvert ==
    /\ cpc = "once"
    /\ out2' = recursive_asdict(out)
    /\ cpc' = "twice"
    /\ UNCHANGED <<heap, pc, args, result, obj, out>>

NextConv == Convert \/ Reconvert

SpecConv == InitConv /\ [][NextConv]_vars

---------------------------------------------------------------------------
\* What the claims read off a state.

\* the last call returned a document
Returned == pc = "returned" /\ result.outcome = "returned"

HasBlock(kind) == \E i \in 1..Len(result.doc) : result.doc[i].kind = kind

\* the node of the document's first yaml block: the experiment config
Yaml == result.doc[CHOOSE i \in 1..Len(result.doc) : result.doc[i].kind = "yaml"].data

DatasetOut == Get(Yaml, "dataset")

\* every WrapperConfig passed has an asdict() result of plain data
PlainVariations ==
    \A i \in 1..Len(args.wrapper_configs.items) :
        IsPlain(args.wrapper_configs.items[i].kids[1])

\* a default configuration as a document shows it
Shown(d) == Represent(recursive_asdict(d))

ResolvedEvaluators == SelectSeq(args.evaluator_names.items, LAMBDA n : get_evaluator(n).found)

ResolvedWrappers == SelectSeq(args.wrapper_names.items, LAMBDA n : get_wrapper(n).found)

\* the default configuration registered for a class, {} when it has none
RegisteredConfig(cls) ==
    IF cls.default_config = "" THEN Dict(<<>>, <<>>) ELSE InitialHeap[cls.default_config]

---------------------------------------------------------------------------
\* C1: a call with a reader_name the reader registry does not know returns
\* a document (it does not raise), and the dataset section of the document
\* has neither a reader nor a config field, only source_type.
C1_MissingReaderOmitted ==
    (/\ pc = "returned"
     /\ args.reader_name.given
     /\ ~get_reader(args.reader_name.v).found)
    => /\ PlainVariations => result.outcome = "returned"
       /\ result.outcome = "returned" =>
            /\ ~HasKey(DatasetOut, "reader")
            /\ ~HasKey(DatasetOut, "config")
            /\ DatasetOut.keys = <<"source_type">>

\* C2: the evaluators list of the document has exactly one entry per name
\* that resolves in the evaluator registry, with or without a default
\* configuration, in input order, and the entry of a name has a name field
\* equal to that name, also when two evaluators share one default
\* configuration object.
C2_EvaluatorEntries ==
    (Returned /\ Len(args.evaluator_names.items) > 0)
    => LET entries == Get(Yaml, "evaluators").kids
       IN  /\ Len(entries) = Len(ResolvedEvaluators)
           /\ \A i \in 1..Len(entries) :
                /\ HasKey(entries[i], "name")
                /\ Get(entries[i], "name") = Prim(ResolvedEvaluators[i])

\* C3: the builder only reads the registries: after any sequence of calls
\* every default configuration has the fields and values it had before
\* the first call.
C3_RegistriesUntouched == heap = InitialHeap

\* C4: the value recursive_asdict returns holds, at any depth, no Enum
\* member and no object with asdict: only primitives, lists and dicts.
C4_OutputPlain == cpc \in {"once", "twice"} => IsPlain(out)

\* C8: recursive_asdict is idempotent: converting its output again
\* changes nothing.
C8_Idempotent == cpc = "twice" => out2 = out

\* C5: for each of evaluators and wrapper_configs the document holds
\* exactly one of the active key (iff the name list was non-empty, also
\* when every lookup missed) and the disabled example line (iff no names
\* were supplied): never both, never neither.
C5_KeyOrHint ==
    Returned =>
        /\ HasKey(Yaml, "evaluators") <=> Len(args.evaluator_names.items) > 0
        /\ HasBlock("evaluators_hint") <=> Len(args.evaluator_names.items) = 0
        /\ HasKey(Yaml, "evaluators") <=> ~HasBlock("evaluators_hint")
        /\ HasKey(Yaml, "wrapper_configs") <=> Len(args.wrapper_names.items) > 0
        /\ HasBlock("wrapper_configs_hint") <=> Len(args.wrapper_names.items) = 0
        /\ HasKey(Yaml, "wrapper_configs") <=> ~HasBlock("wrapper_configs_hint")

\* evaluator names were given and all missed, wrapper names were given as []
C5_Witness ==
    /\ Returned
    /\ args.evaluator_names = Some(<<Ghost>>)
    /\ Get(Yaml, "evaluators") = List(<<>>)
    /\ ~HasBlock("evaluators_hint")
    /\ args.wrapper_names = Some(<<>>)
    /\ HasBlock("wrapper_configs_hint")

\* C6: for a non-empty wrapper_names the wrapper_configs list has exactly
\* one entry per name that resolves in the wrapper registry, in input
\* order, each {name, config} with the looked-up name and the wrapper's
\* default configuration, or an empty mapping when it has none.
C6_WrapperEntries ==
    (Returned /\ Len(args.wrapper_names.items) > 0)
    => LET entries == Get(Yaml, "wrapper_configs").kids
       IN  /\ Len(entries) = Len(ResolvedWrappers)
           /\ \A i \in 1..Len(entries) :
                /\ Range(entries[i].keys) = {"name", "config"}
                /\ Get(entries[i], "name") = Prim(ResolvedWrappers[i])
                /\ Get(entries[i], "config")
                     = Shown(RegisteredConfig(get_wrapper(ResolvedWrappers[i])))

\* a wrapper with a default configuration, a miss, a wrapper with none
C6_Witness ==
    /\ Returned
    /\ args.wrapper_names = Some(<<"string_wrapper", Ghost, "bare_wrapper">>)
    /\ Len(Get(Yaml, "wrapper_configs").kids) = 2
    /\ Get(Get(Yaml, "wrapper_configs").kids[2], "config") = Dict(<<>>, <<>>)

\* C7: with a non-empty wrapper_configs the document ends with an active
\* variations key holding one entry per object, in input order, each the
\* object's asdict() result, and the disabled example is not emitted;
\* with wrapper_configs absent or empty the disabled example is emitted
\* and there is no active variations key.
C7_Variations ==
    Returned =>
        LET last == result.doc[Len(result.doc)]
            given == args.wrapper_configs.items
        IN  IF Len(given) > 0
            THEN /\ last.kind = "variations_yaml"
                 /\ last.data.keys = <<"variations">>
                 /\ Len(last.data.kids[1].kids) = Len(given)
                 /\ \A i \in 1..Len(given) :
                        last.data.kids[1].kids[i] = Represent(given[i].kids[1])
                 /\ ~HasBlock("variations_example")
            ELSE /\ last.kind = "variations_example"
                 /\ ~HasBlock("variations_yaml")

\* two different WrapperConfig objects were passed and both are shown
C7_Witness ==
    /\ Returned
    /\ Len(args.wrapper_configs.items) = 2
    /\ args.wrapper_configs.items[1] # args.wrapper_configs.items[2]
    /\ HasBlock("variations_yaml")

\* C9: with a reader_name that resolves to a reader with a non-empty
\* default configuration, the dataset section holds source_type, reader
\* equal to the given name, and a config block with the fields and values
\* of that default configuration.
C9_ReaderWithConfig ==
    (/\ Returned
     /\ args.reader_name.given
     /\ get_reader(args.reader_name.v).found
     /\ RegisteredConfig(get_reader(args.reader_name.v)).keys # <<>>)
    => /\ Range(DatasetOut.keys) = {"source_type", "reader", "config"}
       /\ Get(DatasetOut, "source_type") = Prim(args.source_type)
       /\ Get(DatasetOut, "reader") = Prim(args.reader_name.v)
       /\ Get(DatasetOut, "config")
            = Shown(RegisteredConfig(get_reader(args.reader_name.v)))

\* the registered reader with a path and an Enum mode was asked for
C9_Witness ==
    /\ Returned
    /\ args.reader_name = Str("csv_reader")
    /\ Get(Get(DatasetOut, "config"), "path") = Prim("data.csv")
    /\ Get(Get(DatasetOut, "config"), "mode") = Prim("r")

=============================================================================
